---------------------------- MODULE Spec2Model ----------------------------
(***************************************************************************)
(* Model of src/index.ts: the /webhook handler of supermemory-omi, its     *)
(* per-request MemoryManager, the question-collection timer callback and   *)
(* the buffer-timeout (reaper) timer callback.                             *)
(*                                                                         *)
(* JavaScript runs every callback to its next await, so one action is one  *)
(* run of a handler or timer callback from a resumption point to the next  *)
(* suspension point (or to its end).  Text is a sequence of one-character  *)
(* strings; times are milliseconds; distances are thousandths.             *)
(***************************************************************************)
EXTENDS Integers, Sequences, FiniteSets, TLC

(***************************************************************************)
(* Bounds of the model.                                                    *)
(***************************************************************************)
\* number of /webhook requests the process receives
MaxReqs == 2
\* longest batch (data.segments) of a request of the concurrent specification
MaxSegs == 1
\* longest batch of the single-request specification
MaxBatch == 3
\* longest batch of it that holds an utterance of 50 or 60 characters
MaxLongBatch == 2
\* milliseconds per step of the clock
TickMs == 1000
\* last clock step at which a request may still arrive
MaxArrival == 3

(***************************************************************************)
(* Program constants (src/index.ts:60-63, 137).                            *)
(***************************************************************************)
\* 0.4, in thousandths
SIMILARITY_THRESHOLD == 400
BUFFER_TIMEOUT == 5000
QUESTION_COLLECTION_TIMEOUT == 2000
nResults == 5
\* text.length > 50
LongUtterance == 50

TRIGGER_PHRASES ==
  { <<"f","o","r","g","o","t">>,
    <<"d","o","n","'","t"," ","r","e","m","e","m","b","e","r">> }

(***************************************************************************)
(* Text.                                                                   *)
(***************************************************************************)
UpperCase == <<"A","B","C","D","E","F","G","H","I","J","K","L","M",
               "N","O","P","Q","R","S","T","U","V","W","X","Y","Z">>
LowerCase == <<"a","b","c","d","e","f","g","h","i","j","k","l","m",
               "n","o","p","q","r","s","t","u","v","w","x","y","z">>

\* String.prototype.toLowerCase, character by character
LowerOf ==
  [c \in {UpperCase[k] : k \in 1..Len(UpperCase)} |->
     LowerCase[CHOOSE k \in 1..Len(UpperCase) : UpperCase[k] = c]]

toLowerCase(text) ==
  [i \in 1..Len(text) |->
     IF text[i] \in DOMAIN LowerOf THEN LowerOf[text[i]] ELSE text[i]]

\* String.prototype.includes
includes(text, phrase) ==
  \E i \in 1..(Len(text) - Len(phrase) + 1) :
     SubSeq(text, i, i + Len(phrase) - 1) = phrase

\* text.match(/[.!?]$/)
MatchesSentenceEnd(text) ==
  /\ Len(text) > 0
  /\ text[Len(text)] \in {".", "!", "?"}

\* Array.prototype.join
RECURSIVE join(_, _)
join(parts, sep) ==
  IF Len(parts) = 0 THEN <<>>
  ELSE IF Len(parts) = 1 THEN parts[1]
  ELSE parts[1] \o sep \o join(Tail(parts), sep)

SPACE == <<" ">>
NEWLINE == <<"\n">>

(***************************************************************************)
(* The inputs: transcript fragments as the client sends them.              *)
(***************************************************************************)
T_hello  == <<"h","e","l","l","o">>
T_world  == <<"w","o","r","l","d",".">>
T_next   == <<"n","e","x","t">>
T_forgot == <<"I"," ","F","o","r","g","o","t">>
T_name   == <<"w","h","a","t"," ","w","a","s"," ","t","h","e"," ","n","a","m","e">>
T_dont   == <<"i"," ","d","o","n","'","t"," ","r","e","m","e","m","b","e","r","?">>
\* utterances of 50 and 60 characters without punctuation
T_long50 == [i \in 1..50 |-> "a"]
T_long60 == [i \in 1..60 |-> "c"]

Sessions == {"A", "B"}
\* a body without session_id
NoSession == "none"

Reqs == 1..MaxReqs

\* all sequences over S of length at most n
SeqsUpTo(S, n) == UNION { [1..k -> S] : k \in 0..n }

Segment(t) == [text |-> t]

ConcTexts == {T_world, T_forgot, T_name, T_dont}
CoreTexts == {T_hello, T_world, T_next, T_forgot, T_dont}
AllTexts  == CoreTexts \cup {T_long50, T_long60}

\* request bodies of the concurrent specification; the first request names
\* session A (the sessions are interchangeable)
ConcBodies(r) ==
  { [session_id |-> s, segments |-> segs] :
      s \in (IF r = 1 THEN {"A"} ELSE Sessions) \cup {NoSession},
      segs \in SeqsUpTo({Segment(t) : t \in ConcTexts}, MaxSegs) }

\* request bodies of the single-request specification
BatchBodies ==
  { [session_id |-> s, segments |-> segs] :
      s \in {"A", NoSession},
      segs \in SeqsUpTo({Segment(t) : t \in CoreTexts}, MaxBatch)
               \cup SeqsUpTo({Segment(t) : t \in AllTexts}, MaxLongBatch) }

\* best distances the vector store may report: 0.4 and 0.41
Distances == {SIMILARITY_THRESHOLD, SIMILARITY_THRESHOLD + 10}


(***************************************************************************)
(* State.                                                                  *)
(***************************************************************************)
VARIABLES
  now,        \* Date.now(), in milliseconds
  body,       \* body[r]: the JSON body of request r, once it has arrived
  pc,         \* pc[r]: where the handler of request r stands (idle: not arrived)
  idx,        \* idx[r]: the segment the handler of request r is at
  fullText,   \* fullText[r]: fullText of the handler's processBuffer call
  buffers,    \* buffers[r]: the buffers map of the MemoryManager of request r
  timers,     \* timers[r]: the setTimeout callbacks request r has scheduled
  store,      \* the memory_store collection: what collection.add was given
  responses,  \* the c.json({message}) calls of the timer callbacks
  http,       \* http[r]: what the handler of request r returned
  cycle       \* cycle[r]: how often the window of request r's buffer was reset

vars == <<now, body, pc, idx, fullText, buffers, timers, store, responses,
          http, cycle>>

NoReq == [session_id |-> NoSession, segments |-> <<>>]
NoResults == [documents |-> <<>>, best |-> -1]
NothingRemembered == "I don't remember anything about that. sorry!"

\* getBuffer's default entry (lines 94-103)
NewBuffer ==
  [messages |-> <<>>, triggerDetected |-> FALSE, triggerTime |-> 0,
   collectedQuestion |-> <<>>, responseSent |-> FALSE,
   partialTrigger |-> FALSE, partialTriggerTime |-> 0, lastActivity |-> now]

\* MemoryManager.getBuffer: the map after the call; buffers[sessionId] is
\* the buffer it returns
getBuffer(mgr, sessionId) ==
  IF sessionId \in DOMAIN mgr THEN mgr ELSE (sessionId :> NewBuffer) @@ mgr

\* a callback handed to setTimeout(callback, delay)
setTimeout(kind, delay) ==
  [kind |-> kind, due |-> now + delay, st |-> "pending", firedAt |-> -1,
   asked |-> <<>>, fullQuestion |-> <<>>, results |-> NoResults,
   generated |-> FALSE, context |-> <<>>, fullText |-> <<>>, cycle |-> -1]

HasTrigger_Forgot(text) == includes(text, <<"f","o","r","g","o","t">>)
HasTrigger(text) == \E phrase \in TRIGGER_PHRASES : includes(text, phrase)

\* line 251: may this fragment open a window?
OpensWindow_NoGuard(buffer) == TRUE
OpensWindow(buffer) == ~buffer.triggerDetected

\* line 245: the flush decision of one fragment of a batch of n
ShouldFlush_Inclusive(text, n) ==
  MatchesSentenceEnd(text) \/ (n = 1 /\ Len(text) >= LongUtterance)
ShouldFlush(text, n) ==
  MatchesSentenceEnd(text) \/ (n = 1 /\ Len(text) > LongUtterance)

\* line 111: the text a flush hands over
FlushText_NoSpace(messages) == join(messages, <<>>)
FlushText(messages) == join(messages, SPACE)

\* line 259
FullQuestion(collectedQuestion) == join(collectedQuestion, SPACE)

\* line 263: is the best match accepted?
Accepts_Strict(results) ==
  /\ results.documents # <<>>
  /\ results.best < SIMILARITY_THRESHOLD
Accepts(results) ==
  \* documents[0] is an array whenever the query answers; distances[0][0]
  \* is undefined, and the comparison false, when it is empty
  /\ results.documents # <<>>
  /\ results.best <= SIMILARITY_THRESHOLD

\* line 270
Context(results) == join(results.documents, NEWLINE)

\* lines 250-286: trigger detection on one fragment; h holds the handler's
\* buffer and the timers of its request
TriggerDetect(h, text) ==
  IF HasTrigger(text)
  THEN IF OpensWindow(h.buffer)
       THEN [h EXCEPT
               !.buffer = [@ EXCEPT !.triggerDetected = TRUE,
                                    !.triggerTime = now,
                                    !.collectedQuestion = <<text>>],
               !.timers = Append(@, setTimeout("dispatch",
                                               QUESTION_COLLECTION_TIMEOUT))]
       ELSE [h EXCEPT !.buffer.collectedQuestion = Append(@, text)]
  ELSE h

\* lines 239-297: the handler from segment i on, up to its next await of a
\* flush or to its return
RECURSIVE ContinueLoop_DetectFirst(_, _, _)
ContinueLoop_DetectFirst(segments, i, h) ==
  IF i > Len(segments)
  THEN [h EXCEPT !.timers = Append(@, setTimeout("reaper", BUFFER_TIMEOUT)),
                 !.pc = "done", !.http = "success"]
  ELSE LET text == toLowerCase(segments[i].text)
           h1 == TriggerDetect([h EXCEPT !.buffer.messages = Append(@, text),
                                         !.buffer.lastActivity = now,
                                         !.i = i], text)
       IN IF ShouldFlush(text, Len(segments))
          THEN [h1 EXCEPT !.pc = "saving",
                          !.fullText = FlushText(h1.buffer.messages)]
          ELSE ContinueLoop_DetectFirst(segments, i + 1, h1)
RECURSIVE ContinueLoop(_, _, _)
ContinueLoop(segments, i, h) ==
  IF i > Len(segments)
  THEN [h EXCEPT !.timers = Append(@, setTimeout("reaper", BUFFER_TIMEOUT)),
                 !.pc = "done", !.http = "success"]
  ELSE LET text == toLowerCase(segments[i].text)
           h1 == [h EXCEPT !.buffer.messages = Append(@, text),
                           !.buffer.lastActivity = now,
                           !.i = i]
       IN IF ShouldFlush(text, Len(segments)) /\ Len(h1.buffer.messages) > 0
          THEN [h1 EXCEPT !.pc = "saving",
                          !.fullText = FlushText(h1.buffer.messages)]
          ELSE ContinueLoop(segments, i + 1, TriggerDetect(h1, text))

\* the handler's view of its request
Handler(r) ==
  [buffer |-> buffers[r][body[r].session_id], timers |-> timers[r],
   pc |-> pc[r], i |-> idx[r], fullText |-> fullText[r], http |-> http[r]]

\* what a run of the handler of r leaves behind
Commit(r, sid, h) ==
  /\ buffers' = [buffers EXCEPT ![r] = [@ EXCEPT ![sid] = h.buffer]]
  /\ timers' = [timers EXCEPT ![r] = h.timers]
  /\ pc' = [pc EXCEPT ![r] = h.pc]
  /\ idx' = [idx EXCEPT ![r] = h.i]
  /\ fullText' = [fullText EXCEPT ![r] = h.fullText]
  /\ http' = [http EXCEPT ![r] = h.http]

Init ==
  /\ now = 0
  /\ body = [r \in Reqs |-> NoReq]
  /\ pc = [r \in Reqs |-> "idle"]
  /\ idx = [r \in Reqs |-> 0]
  /\ fullText = [r \in Reqs |-> <<>>]
  /\ buffers = [r \in Reqs |-> <<>>]
  /\ timers = [r \in Reqs |-> <<>>]
  /\ store = <<>>
  /\ responses = <<>>
  /\ http = [r \in Reqs |-> "none"]
  /\ cycle = [r \in Reqs |-> 0]

\* requests arrive in the order of their numbers
MayArrive(r) ==
  /\ pc[r] = "idle"
  /\ IF r = 1 THEN TRUE ELSE pc[r - 1] # "idle"
  /\ now <= MaxArrival * TickMs

\* lines 228-230: a body without session_id is answered 400
Reject(r, bodies) ==
  /\ MayArrive(r)
  /\ \E data \in bodies :
       /\ data.session_id = NoSession
       /\ body' = [body EXCEPT ![r] = data]
  /\ pc' = [pc EXCEPT ![r] = "rejected"]
  /\ http' = [http EXCEPT ![r] = "error400"]
  /\ UNCHANGED <<now, idx, fullText, buffers, timers, store, responses, cycle>>

\* lines 224-297: the handler up to its first await or its return, with a
\* MemoryManager of its own (line 234)
Webhook(r, bodies) ==
  /\ MayArrive(r)
  /\ \E data \in bodies :
       /\ data.session_id # NoSession
       /\ body' = [body EXCEPT ![r] = data]
       /\ \E mgr \in {getBuffer(<<>>, data.session_id)} :
          \E h0 \in {[buffer |-> mgr[data.session_id], timers |-> <<>>,
                      pc |-> "idle", i |-> 0, fullText |-> <<>>,
                      http |-> "none"]} :
          \E h \in {ContinueLoop(data.segments, 1, h0)} :
            /\ buffers' = [buffers EXCEPT ![r] = [mgr EXCEPT
                                                   ![data.session_id] = h.buffer]]
            /\ timers' = [timers EXCEPT ![r] = h.timers]
            /\ pc' = [pc EXCEPT ![r] = h.pc]
            /\ idx' = [idx EXCEPT ![r] = h.i]
            /\ fullText' = [fullText EXCEPT ![r] = h.fullText]
            /\ http' = [http EXCEPT ![r] = h.http]
  /\ UNCHANGED <<now, store, responses, cycle>>

\* a memory as collection.add stores it (lines 122-127); by names the call
Memory_OneTag(text, sessionId, r, who, at) ==
  [document |-> text, sessionId |-> "A",
   by |-> [req |-> r, who |-> who, at |-> at]]
Memory(text, sessionId, r, who, at) ==
  [document |-> text, sessionId |-> sessionId,
   by |-> [req |-> r, who |-> who, at |-> at]]

\* lines 117-127 in the handler: the embedding arrived, collection.add is
\* called
HandlerAdd(r) ==
  /\ pc[r] = "saving"
  /\ store' = Append(store, Memory(fullText[r], body[r].session_id, r,
                                   "handler", idx[r]))
  /\ pc' = [pc EXCEPT ![r] = "added"]
  /\ UNCHANGED <<now, body, idx, fullText, buffers, timers, responses, http,
                 cycle>>

\* lines 113, 246-297: collection.add answered; the buffer is emptied and the
\* handler goes on with the trigger detection of the same fragment
HandlerFlushed(r) ==
  /\ pc[r] = "added"
  /\ \E h0 \in {Handler(r)} :
     \E h1 \in {[h0 EXCEPT !.buffer.messages = <<>>, !.fullText = <<>>]} :
     \E h2 \in {TriggerDetect(h1, toLowerCase(body[r].segments[idx[r]].text))} :
     \E h \in {ContinueLoop(body[r].segments, idx[r] + 1, h2)} :
       Commit(r, body[r].session_id, h)
  /\ UNCHANGED <<now, body, store, responses, cycle>>

\* the embedding provider or the vector store fails: the rejection leaves
\* processBuffer before line 113 and the handler before line 290
HandlerFails(r) ==
  /\ pc[r] = "saving"
  /\ pc' = [pc EXCEPT ![r] = "failed"]
  /\ http' = [http EXCEPT ![r] = "failure"]
  /\ UNCHANGED <<now, body, idx, fullText, buffers, timers, store, responses,
                 cycle>>

(***************************************************************************)
(* Timer callbacks.  timers[r][k] is the k-th callback request r handed to *)
(* setTimeout; its closure holds request r's buffer, MemoryManager and     *)
(* sessionId.                                                              *)
(***************************************************************************)
Timer(r, k) == timers[r][k]
Sid(r) == body[r].session_id
Buffer(r) == buffers[r][Sid(r)]

IsTimer(r, k, kind, st) ==
  /\ k \in DOMAIN timers[r]
  /\ timers[r][k].kind = kind
  /\ timers[r][k].st = st

\* MemoryManager.searchMemories (lines 130-143): the documents stored under
\* sessionId, at most nResults of them, and the distance of the best one
searchMemories(sessionId, best) ==
  LET mine == SelectSeq(store, LAMBDA m : m.sessionId = sessionId)
      docs == [i \in 1..(IF Len(mine) < nResults THEN Len(mine) ELSE nResults)
                 |-> mine[i].document]
  IN [documents |-> docs, best |-> IF docs = <<>> THEN -1 ELSE best]

\* lines 257-260: the question-collection timer fires
DispatchFire(r, k) ==
  /\ IsTimer(r, k, "dispatch", "pending")
  /\ now >= Timer(r, k).due
  /\ LET buffer == Buffer(r)
     IN IF buffer.triggerDetected /\ ~buffer.responseSent
        THEN timers' = [timers EXCEPT ![r][k] =
               [@ EXCEPT !.st = "search",
                         !.asked = buffer.collectedQuestion,
                         !.fullQuestion = FullQuestion(buffer.collectedQuestion),
                         !.cycle = cycle[r]]]
        ELSE timers' = [timers EXCEPT ![r][k].st = "done"]
  /\ UNCHANGED <<now, body, pc, idx, fullText, buffers, store, responses, http,
                 cycle>>

\* lines 260-280: the search answered
SearchReturn(r, k, best) ==
  /\ IsTimer(r, k, "dispatch", "search")
  /\ LET searchResults == searchMemories(Sid(r), best)
         t == [Timer(r, k) EXCEPT !.results = searchResults]
     IN IF Accepts(searchResults)
        THEN IF Len(searchResults.documents) = 0
             THEN /\ buffers' = [buffers EXCEPT ![r][Sid(r)].responseSent = TRUE]
                  /\ responses' = Append(responses,
                       [req |-> r, timer |-> k, cycle |-> cycle[r],
                        message |-> NothingRemembered])
                  /\ timers' = [timers EXCEPT ![r][k] = [t EXCEPT !.st = "done"]]
                  /\ UNCHANGED cycle
             ELSE /\ timers' = [timers EXCEPT ![r][k] =
                       [t EXCEPT !.st = "generate", !.generated = TRUE,
                                 !.context = Context(searchResults)]]
                  /\ UNCHANGED <<buffers, responses, cycle>>
        ELSE /\ buffers' = [buffers EXCEPT
                  ![r][Sid(r)] = [@ EXCEPT !.triggerDetected = FALSE,
                                           !.collectedQuestion = <<>>]]
             /\ cycle' = [cycle EXCEPT ![r] = @ + 1]
             /\ timers' = [timers EXCEPT ![r][k] = [t EXCEPT !.st = "done"]]
             /\ UNCHANGED responses
  /\ UNCHANGED <<now, body, pc, idx, fullText, store, http>>

\* lines 271-276: the completion arrived
GenerateReturn_AnswersRequest(r, k) ==
  /\ IsTimer(r, k, "dispatch", "generate")
  /\ buffers' = [buffers EXCEPT ![r][Sid(r)].responseSent = TRUE]
  /\ responses' = Append(responses,
       [req |-> r, timer |-> k, cycle |-> cycle[r], message |-> "answer"])
  /\ timers' = [timers EXCEPT ![r][k].st = "done"]
  /\ http' = [http EXCEPT ![r] = "answer"]
  /\ UNCHANGED <<now, body, pc, idx, fullText, store, cycle>>
GenerateReturn(r, k) ==
  /\ IsTimer(r, k, "dispatch", "generate")
  /\ buffers' = [buffers EXCEPT ![r][Sid(r)].responseSent = TRUE]
  /\ responses' = Append(responses,
       [req |-> r, timer |-> k, cycle |-> cycle[r], message |-> "answer"])
  /\ timers' = [timers EXCEPT ![r][k].st = "done"]
  /\ UNCHANGED <<now, body, pc, idx, fullText, store, http, cycle>>

\* the search or the completion provider fails: the callback's promise is
\* rejected at its await and nothing after it runs
DispatchFails_Resets(r, k) ==
  /\ \/ IsTimer(r, k, "dispatch", "search")
     \/ IsTimer(r, k, "dispatch", "generate")
  /\ timers' = [timers EXCEPT ![r][k].st = "failed"]
  /\ buffers' = [buffers EXCEPT
       ![r][Sid(r)] = [@ EXCEPT !.triggerDetected = FALSE,
                                !.collectedQuestion = <<>>]]
  /\ UNCHANGED <<now, body, pc, idx, fullText, store, responses, http, cycle>>
DispatchFails(r, k) ==
  /\ \/ IsTimer(r, k, "dispatch", "search")
     \/ IsTimer(r, k, "dispatch", "generate")
  /\ timers' = [timers EXCEPT ![r][k].st = "failed"]
  /\ UNCHANGED <<now, body, pc, idx, fullText, buffers, store, responses, http,
                 cycle>>

\* line 292: is the buffer stale?
IsStale_Strict(buffer) == now - buffer.lastActivity > BUFFER_TIMEOUT
IsStale(buffer) == now - buffer.lastActivity >= BUFFER_TIMEOUT

\* lines 290-294, 108-112: the buffer-timeout timer fires
ReaperFire(r, k) ==
  /\ IsTimer(r, k, "reaper", "pending")
  /\ now >= Timer(r, k).due
  /\ LET mgr == getBuffer(buffers[r], Sid(r))
         buffer == mgr[Sid(r)]
     IN /\ buffers' = [buffers EXCEPT ![r] = mgr]
        /\ IF IsStale(buffer) /\ Len(buffer.messages) > 0
           THEN timers' = [timers EXCEPT ![r][k] =
                  [@ EXCEPT !.st = "saving",
                            !.fullText = FlushText(buffer.messages)]]
           ELSE timers' = [timers EXCEPT ![r][k].st = "done"]
  /\ UNCHANGED <<now, body, pc, idx, fullText, store, responses, http, cycle>>

\* lines 117-127 in the reaper: the embedding arrived, collection.add is
\* called
ReaperAdd(r, k) ==
  /\ IsTimer(r, k, "reaper", "saving")
  /\ store' = Append(store, Memory(Timer(r, k).fullText, Sid(r), r, "reaper", k))
  /\ timers' = [timers EXCEPT ![r][k].st = "added"]
  /\ UNCHANGED <<now, body, pc, idx, fullText, buffers, responses, http, cycle>>

\* line 113 in the reaper
ReaperFlushed(r, k) ==
  /\ IsTimer(r, k, "reaper", "added")
  /\ buffers' = [buffers EXCEPT ![r][Sid(r)].messages = <<>>]
  /\ timers' = [timers EXCEPT ![r][k].st = "done"]
  /\ UNCHANGED <<now, body, pc, idx, fullText, store, responses, http, cycle>>

ReaperFails(r, k) ==
  /\ IsTimer(r, k, "reaper", "saving")
  /\ timers' = [timers EXCEPT ![r][k].st = "failed"]
  /\ UNCHANGED <<now, body, pc, idx, fullText, buffers, store, responses, http,
                 cycle>>

\* a timer that has not fired yet
Pending(r, k) == k \in DOMAIN timers[r] /\ timers[r][k].st = "pending"

\* a timer whose delay has passed
Due(r, k) == Pending(r, k) /\ timers[r][k].due <= now

\* the clock advances.  It starts with the first request, a timer that is
\* due fires before the next step of the clock (no callback of this program
\* keeps the event loop busy), and the clock stops once no request may
\* arrive and no timer waits
Tick ==
  /\ pc[1] # "idle"
  /\ \A r \in Reqs : \A k \in DOMAIN timers[r] : ~Due(r, k)
  /\ \/ now < MaxArrival * TickMs
     \/ \E r \in Reqs : \E k \in DOMAIN timers[r] : Pending(r, k)
  /\ now' = now + TickMs
  /\ UNCHANGED <<body, pc, idx, fullText, buffers, timers, store, responses,
                 http, cycle>>

TimerIds == 1..(MaxBatch + MaxLongBatch + MaxSegs + 1)

\* what the event loop runs next when every provider call succeeds
Progress ==
  \/ Tick
  \/ \E r \in Reqs : HandlerAdd(r)
  \/ \E r \in Reqs : HandlerFlushed(r)
  \/ \E r \in Reqs : \E k \in TimerIds : DispatchFire(r, k)
  \/ \E r \in Reqs : \E k \in TimerIds : \E d \in Distances : SearchReturn(r, k, d)
  \/ \E r \in Reqs : \E k \in TimerIds : GenerateReturn(r, k)
  \/ \E r \in Reqs : \E k \in TimerIds : ReaperFire(r, k)
  \/ \E r \in Reqs : \E k \in TimerIds : ReaperAdd(r, k)
  \/ \E r \in Reqs : \E k \in TimerIds : ReaperFlushed(r, k)

\* a provider call fails
Failure ==
  \/ \E r \in Reqs : HandlerFails(r)
  \/ \E r \in Reqs : \E k \in TimerIds : DispatchFails(r, k)
  \/ \E r \in Reqs : \E k \in TimerIds : ReaperFails(r, k)

\* requests of one or two sessions, overlapping or not
Next ==
  \/ \E r \in Reqs : Reject(r, ConcBodies(r))
  \/ \E r \in Reqs : Webhook(r, ConcBodies(r))
  \/ Progress
  \/ Failure

Spec == Init /\ [][Next]_vars

\* one request with any batch
BatchNext ==
  \/ Reject(1, BatchBodies)
  \/ Webhook(1, BatchBodies)
  \/ Progress
  \/ Failure

BatchSpec == Init /\ [][BatchNext]_vars

\* one request with any batch, the providers never failing; the event loop
\* runs what is ready, the clock advances and every provider call returns
ReliableNext ==
  \/ Reject(1, BatchBodies)
  \/ Webhook(1, BatchBodies)
  \/ Progress

ReliableSpec == Init /\ [][ReliableNext]_vars /\ WF_vars(Progress)

\* the dispatcher callback of timer k, which has already been invoked, is
\* invoked a second time on the same closure (lines 257-282 run again: the
\* same buffer, MemoryManager and sessionId); the second invocation is the
\* last timer of the request and is due at once
DuplicateInvocation(r, k) ==
  /\ k \in DOMAIN timers[r]
  /\ timers[r][k].kind = "dispatch"
  /\ timers[r][k].st # "pending"
  /\ \A j \in DOMAIN timers[r] :
        j # k => ~(timers[r][j].kind = "dispatch"
                     /\ timers[r][j].due = timers[r][k].due)
  /\ timers' = [timers EXCEPT ![r] =
        Append(@, [setTimeout("dispatch", 0) EXCEPT !.due = timers[r][k].due])]
  /\ UNCHANGED <<now, body, pc, idx, fullText, buffers, store, responses, http,
                 cycle>>

\* one request of one fragment, every dispatcher callback invoked at most
\* twice
DuplicateNext ==
  \/ Reject(1, ConcBodies(1))
  \/ Webhook(1, ConcBodies(1))
  \/ Progress
  \/ Failure
  \/ \E k \in TimerIds : DuplicateInvocation(1, k)

DuplicateSpec == Init /\ [][DuplicateNext]_vars

(***************************************************************************)
(* Vocabulary of the claims.                                               *)
(***************************************************************************)
\* request r arrived with a session_id, so it has a MemoryManager and a buffer
Arrived(r) == pc[r] \notin {"idle", "rejected"}

\* the fragments of request r as the handler appends them
Fragments(r) ==
  [i \in 1..Len(body[r].segments) |-> toLowerCase(body[r].segments[i].text)]

\* the texts request r handed to the MemoryStore, by its handler or reaper
StoredBy(r, who) ==
  LET mine == SelectSeq(store, LAMBDA m : m.by.req = r /\ m.by.who \in who)
  IN [i \in 1..Len(mine) |-> mine[i].document]

\* the responses produced by the timer callbacks of request r
ResponsesOf(r) == SelectSeq(responses, LAMBDA m : m.req = r)

IsPrefix(a, b) == Len(a) <= Len(b) /\ SubSeq(b, 1, Len(a)) = a

C2_UnflushedFragmentsAreShared ==
  \A r1, r2 \in Reqs :
     ( /\ r1 < r2
       /\ Arrived(r1) /\ Arrived(r2)
       /\ Sid(r1) = Sid(r2)
       /\ pc[r1] = "done"
       /\ Buffer(r1).messages # <<>>
       /\ \A k \in DOMAIN timers[r1] :
            timers[r1][k].kind = "reaper" => timers[r1][k].st = "pending"
       /\ pc[r2] = "saving" )
     => IsPrefix(FlushText(Buffer(r1).messages), fullText[r2])

(***************************************************************************)
(* C3 (as claimed): "i forgot" opens a window; "what was the name", sent   *)
(* for the same session before the 2000 ms have passed, joins the          *)
(* question, and the timer asks "i forgot what was the name".              *)
(***************************************************************************)
C3_LaterFragmentJoinsQuestion ==
  \A r1, r2 \in Reqs :
     ( /\ r1 < r2
       /\ Arrived(r1) /\ Arrived(r2)
       /\ Sid(r1) = Sid(r2)
       /\ Fragments(r1) = <<toLowerCase(T_forgot)>>
       /\ Fragments(r2) = <<T_name>>
       /\ IsTimer(r1, 1, "dispatch", "search")
       /\ Buffer(r2).lastActivity < Timer(r1, 1).due )
     => Timer(r1, 1).fullQuestion = toLowerCase(T_forgot) \o SPACE \o T_name

(***************************************************************************)
(* C4 (as claimed): a session has at most one open window, hence at most   *)
(* one question-collection timer waiting, in every reachable state.        *)
(***************************************************************************)
C4_OneWindowPerSession ==
  \A s \in Sessions :
     Cardinality({ r \in Reqs :
                     /\ Arrived(r)
                     /\ Sid(r) = s
                     /\ Buffer(r).triggerDetected
                     /\ \E k \in DOMAIN timers[r] :
                          IsTimer(r, k, "dispatch", "pending") }) <= 1

(***************************************************************************)
(* C5: when the providers do not fail, every fragment a request appended   *)
(* is eventually handed to the MemoryStore, once and in order, and the     *)
(* buffer is left empty: what no sentence end flushed, the reaper flushes. *)
(***************************************************************************)
C5_FullyStored(r) ==
  /\ Arrived(r)
  /\ Buffer(r).messages = <<>>
  /\ join(StoredBy(r, {"handler", "reaper"}), SPACE) = join(Fragments(r), SPACE)

\* C5: every request that arrived ends with all its fragments stored, once
\* and in order, and its buffer empty
C5_EveryFragmentIsStored ==
  \A r \in Reqs : Arrived(r) ~> C5_FullyStored(r)

\* a reaper has flushed a fragment that no sentence end had flushed
C5_Witness ==
  \E r \in Reqs :
     /\ C5_FullyStored(r)
     /\ StoredBy(r, {"reaper"}) # <<>>
     /\ ~MatchesSentenceEnd(Fragments(r)[Len(Fragments(r))])

(***************************************************************************)
(* C6 (as claimed): a reaper does not flush when a fragment of its session *)
(* arrived after the reaper was scheduled and less than 5000 ms before it  *)
(* fired.                                                                  *)
(***************************************************************************)
C6_SupersededReaperIsNoop ==
  \A r1, r2 \in Reqs : \A k \in DOMAIN timers[r1] :
     ( /\ r1 # r2
       /\ Arrived(r1) /\ Arrived(r2)
       /\ Sid(r1) = Sid(r2)
       /\ Fragments(r2) # <<>>
       /\ timers[r1][k].kind = "reaper"
       /\ Buffer(r2).lastActivity > timers[r1][k].due - BUFFER_TIMEOUT
       /\ Buffer(r2).lastActivity < timers[r1][k].due )
     => timers[r1][k].st \notin {"saving", "added"}

(***************************************************************************)
(* C7: the flushes of one batch.  C7_Walk replays a batch whose i-th       *)
(* fragment flushes iff marks[i]: the texts flushed so far and the         *)
(* fragments still pending.                                                *)
(***************************************************************************)
RECURSIVE C7_Walk(_, _, _, _)
C7_Walk(frags, marks, i, acc) ==
  IF i > Len(frags) THEN acc
  ELSE LET pending == Append(acc.rest, frags[i])
       IN IF marks[i]
          THEN C7_Walk(frags, marks, i + 1,
                       [flushed |-> Append(acc.flushed, join(pending, SPACE)),
                        rest |-> <<>>])
          ELSE C7_Walk(frags, marks, i + 1,
                       [flushed |-> acc.flushed, rest |-> pending])

C7_Terminal(f) == f # <<>> /\ f[Len(f)] \in {".", "!", "?"}

\* the handler returned and its reaper has not fired yet
C7_BatchProcessed(r) ==
  /\ pc[r] = "done"
  /\ \A k \in DOMAIN timers[r] :
       timers[r][k].kind = "reaper" => timers[r][k].st = "pending"

C7_Agrees(r, marks) ==
  LET w == C7_Walk(Fragments(r), marks, 1, [flushed |-> <<>>, rest |-> <<>>])
  IN /\ StoredBy(r, {"handler"}) = w.flushed
     /\ Buffer(r).messages = w.rest

\* C7 (as claimed): one flush for each fragment that ends in . ! or ?
C7_FlushPerTerminalFragment ==
  \A r \in Reqs :
     C7_BatchProcessed(r) =>
       C7_Agrees(r, [i \in 1..Len(Fragments(r)) |->
                       C7_Terminal(Fragments(r)[i])])

\* C7 (as amended): one flush for each fragment that ends in . ! or ?, or is
\* the only fragment of the batch and longer than 50 characters; each flush
\* hands over the single-space join of the fragments appended since the
\* flush before it, and the fragments after the last flush stay pending
C7_FlushPerFlushingFragment ==
  \A r \in Reqs :
     C7_BatchProcessed(r) =>
       C7_Agrees(r, [i \in 1..Len(Fragments(r)) |->
                       \/ C7_Terminal(Fragments(r)[i])
                       \/ (Len(Fragments(r)) = 1
                             /\ Len(Fragments(r)[i]) > LongUtterance)])

\* hello, world., next: one flush of "hello world.", next stays pending
C7_Witness ==
  \E r \in Reqs :
     /\ C7_BatchProcessed(r)
     /\ Fragments(r) = <<T_hello, T_world, T_next>>
     /\ StoredBy(r, {"handler"}) = <<T_hello \o SPACE \o T_world>>
     /\ Buffer(r).messages = <<T_next>>

(***************************************************************************)
(* C8: a fragment without terminal punctuation is flushed on ingestion iff *)
(* it is the only fragment of its batch and longer than 50 characters.     *)
(***************************************************************************)
\* the handler of r began a flush right after appending fragment i
C8_FlushedOnIngestion(r, i) ==
  \/ pc[r] \in {"saving", "added", "failed"} /\ idx[r] = i
  \/ \E n \in DOMAIN store :
       store[n].by = [req |-> r, who |-> "handler", at |-> i]

\* C8: for every fragment without terminal punctuation the handler has
\* reached: flushed on ingestion iff alone in its batch and longer than 50
C8_LoneLongFragmentFlushes ==
  \A r \in Reqs : \A i \in 1..Len(body[r].segments) :
     (Arrived(r) /\ idx[r] >= i /\ ~C7_Terminal(Fragments(r)[i]))
     => (C8_FlushedOnIngestion(r, i)
           <=> (Len(Fragments(r)) = 1 /\ Len(Fragments(r)[i]) > 50))

\* a lone fragment of 60 characters was handed to the store
C8_Witness ==
  \E r \in Reqs :
     /\ Arrived(r)
     /\ Fragments(r) = <<T_long60>>
     /\ StoredBy(r, {"handler"}) = <<T_long60>>

(***************************************************************************)
(* C9 (as claimed): a search that returns no document, or a best distance  *)
(* above 0.4, is answered with the "nothing remembered" message.           *)
(***************************************************************************)
\* the callback k of r passed its precondition and ran to its end
C9_Resolved(r, k) ==
  /\ IsTimer(r, k, "dispatch", "done")
  /\ timers[r][k].asked # <<>>

\* C9 (as claimed): every resolved callback whose search found no document
\* or only documents farther than 0.4 sent the "nothing remembered" message
C9_NothingRememberedIsSent ==
  \A r \in Reqs : \A k \in DOMAIN timers[r] :
     ( /\ C9_Resolved(r, k)
       /\ \/ timers[r][k].results.documents = <<>>
          \/ timers[r][k].results.best > SIMILARITY_THRESHOLD )
     => \E n \in DOMAIN responses :
          /\ responses[n].req = r
          /\ responses[n].timer = k
          /\ responses[n].message = NothingRemembered

(***************************************************************************)
(* C10: the generator is called iff the search returned a document and the *)
(* best distance is at most 0.4; it is given every returned document,      *)
(* joined, and the space-joined question collected when the timer fired.   *)
(***************************************************************************)
C10_GeneratorCalledIffAccepted ==
  \A r \in Reqs : \A k \in DOMAIN timers[r] :
     LET t == timers[r][k]
         docs == t.results.documents
     IN (t.kind = "dispatch" /\ t.st \in {"generate", "done"})
        => /\ t.generated <=> (Len(docs) >= 1 /\ t.results.best <= 400)
           /\ t.generated =>
                /\ t.context = join(docs, NEWLINE)
                /\ \A i \in DOMAIN docs : includes(t.context, docs[i])
                /\ t.fullQuestion = join(t.asked, SPACE)

\* a best distance of exactly 0.4: the generator got two documents and a
\* question of two fragments
C10_Witness ==
  \E r \in Reqs : \E k \in DOMAIN timers[r] :
     /\ timers[r][k].generated
     /\ timers[r][k].results.best = 400
     /\ Len(timers[r][k].results.documents) >= 2
     /\ Len(timers[r][k].asked) >= 2

(***************************************************************************)
(* C11 (as claimed): a second invocation of the dispatcher callback for    *)
(* the same trigger cycle is a no-op, whenever it starts: it performs no   *)
(* search, calls no generator and delivers no response.                    *)
(***************************************************************************)
\* timer k is the second invocation of the callback of timer j
C11_SecondInvocation(r, j, k) ==
  /\ j \in DOMAIN timers[r] /\ k \in DOMAIN timers[r]
  /\ j < k
  /\ timers[r][j].kind = "dispatch" /\ timers[r][k].kind = "dispatch"
  /\ timers[r][j].due = timers[r][k].due

\* C11 (as claimed): every second invocation stays without search,
\* generator call and response
C11_DuplicateIsNoop ==
  \A r \in Reqs : \A j, k \in DOMAIN timers[r] :
     C11_SecondInvocation(r, j, k) =>
       /\ timers[r][k].st \in {"pending", "done"}
       /\ timers[r][k].asked = <<>>
       /\ ~timers[r][k].generated
       /\ \A n \in DOMAIN responses :
            ~(responses[n].req = r /\ responses[n].timer = k)

(***************************************************************************)
(* C12: sessions are isolated.  A step taken for a request of one session  *)
(* (its arrival, a resumption of its handler, one of its timer callbacks)  *)
(* leaves the buffers and timers of every request of another session       *)
(* unchanged, and every stored memory carries the session id of the buffer *)
(* it was flushed from.                                                    *)
(***************************************************************************)
\* the step is one of request r
C12_Acts(r) ==
  \/ pc'[r] # pc[r]
  \/ timers'[r] # timers[r]
  \/ buffers'[r] # buffers[r]

C12_Frame ==
  \A r1, r2 \in Reqs :
     ( /\ C12_Acts(r1)
       /\ Arrived(r2)
       /\ body'[r1].session_id # Sid(r2) )
     => /\ buffers'[r2] = buffers[r2]
        /\ timers'[r2] = timers[r2]
        /\ DOMAIN buffers'[r1] \subseteq {body'[r1].session_id}

\* memory n was flushed from the buffer of the request that stored it: it
\* has that request's session id and its text is made of that request's
\* fragments
C12_Tagged(n) ==
  LET r == store[n].by.req
  IN /\ Arrived(r)
     /\ store[n].sessionId = Sid(r)
     /\ \E i, j \in DOMAIN Fragments(r) :
          store[n].document = join(SubSeq(Fragments(r), i, j), SPACE)

\* C12: memories are tagged with their session and no step of one session
\* changes the buffer of another
C12_SessionsIsolated ==
  /\ [](\A n \in DOMAIN store : C12_Tagged(n))
  /\ [][C12_Frame]_vars

\* session A flushed and emptied its buffer while session B, which arrived
\* before that flush ended, still holds its fragment
C12_Witness ==
  \E r1, r2 \in Reqs :
     /\ Arrived(r1) /\ Arrived(r2)
     /\ Sid(r1) = "A" /\ Sid(r2) = "B"
     /\ StoredBy(r1, {"handler"}) # <<>>
     /\ Buffer(r1).messages = <<>>
     /\ Buffer(r2).messages = Fragments(r2)
     /\ Buffer(r2).messages # <<>>
     /\ \E n \in DOMAIN store : store[n].sessionId = "B"

(***************************************************************************)
(* C13: a request with a session_id is answered {status:'success'} as soon *)
(* as its loop has run, whatever its timers do: it is unanswered only      *)
(* while its handler awaits a flush, a failed flush is the only other      *)
(* answer, and nothing a timer callback returns becomes its HTTP response. *)
(***************************************************************************)
C13_AnsweredSuccess ==
  \A r \in Reqs :
     Arrived(r) =>
       /\ http[r] \in {"none", "success", "failure"}
       /\ http[r] = "none" <=> pc[r] \in {"saving", "added"}
       /\ http[r] = "failure" <=> pc[r] = "failed"
       /\ http[r] = "success" <=> pc[r] = "done"
       /\ pc[r] = "done" =>
            /\ idx[r] = Len(body[r].segments)
            /\ timers[r] # <<>>
            /\ timers[r][Len(timers[r])].kind = "reaper"

\* the request was answered while its question-collection timer and its
\* reaper had 2000 ms and 5000 ms to go
C13_Witness ==
  \E r \in Reqs : \E k \in DOMAIN timers[r] :
     /\ pc[r] = "done" /\ http[r] = "success"
     /\ IsTimer(r, k, "dispatch", "pending")
     /\ timers[r][k].due = now + QUESTION_COLLECTION_TIMEOUT
     /\ IsTimer(r, Len(timers[r]), "reaper", "pending")
     /\ timers[r][Len(timers[r])].due = now + BUFFER_TIMEOUT

(***************************************************************************)
(* C14 (as claimed): when a callback that passed its precondition          *)
(* completes, on either branch, the buffer has responseSent = true,        *)
(* triggerDetected = false and collectedQuestion = [].                     *)
(***************************************************************************)
\* the step completes callback k of r, which had passed line 258
C14_Completes(r, k) ==
  /\ k \in DOMAIN timers[r]
  /\ timers[r][k].kind = "dispatch"
  /\ timers[r][k].st \in {"search", "generate"}
  /\ timers'[r][k].st = "done"

\* C14 (as claimed): every completion leaves the cycle resolved and the
\* window reset
C14_CompletionResets ==
  [][\A r \in Reqs : \A k \in TimerIds :
       C14_Completes(r, k) =>
         /\ buffers'[r][Sid(r)].responseSent
         /\ ~buffers'[r][Sid(r)].triggerDetected
         /\ buffers'[r][Sid(r)].collectedQuestion = <<>>]_vars

(***************************************************************************)
(* C15 (as claimed): a trigger phrase detected when the earlier cycle of   *)
(* its buffer is resolved, answered or not, opens a window:                *)
(* triggerDetected = true, collectedQuestion = [fragment], responseSent =  *)
(* false, and exactly one timer of 2000 ms is scheduled.                   *)
(***************************************************************************)
\* the fragments whose trigger detection (lines 250-286) runs in a step
\* that resumes the handler of r after a flush
C15_Detected(r) ==
  { i \in idx[r]..(IF pc'[r] = "saving" THEN idx'[r] - 1 ELSE idx'[r]) :
      HasTrigger(Fragments(r)[i]) }

\* a callback of r resolved a cycle and no other callback is waiting or
\* running
C15_EarlierResolved(r) ==
  /\ \E k \in DOMAIN timers[r] : C9_Resolved(r, k)
  /\ \A k \in DOMAIN timers[r] : timers[r][k].st = "done"

\* C15 (as claimed): the first trigger fragment detected after a resolved
\* cycle starts a fresh cycle
C15_TriggerStartsFreshCycle ==
  [][\A r \in Reqs :
       ( /\ pc[r] = "added" /\ pc'[r] # "added"
         /\ C15_Detected(r) # {}
         /\ C15_EarlierResolved(r) )
       => LET first == CHOOSE i \in C15_Detected(r) :
                         \A j \in C15_Detected(r) : i <= j
              new == { k \in DOMAIN timers'[r] :
                         /\ k > Len(timers[r])
                         /\ timers'[r][k].kind = "dispatch" }
          IN /\ Cardinality(new) = 1
             /\ \A k \in new :
                  /\ timers'[r][k].st = "pending"
                  /\ timers'[r][k].due = now + QUESTION_COLLECTION_TIMEOUT
             /\ buffers'[r][Sid(r)].triggerDetected
             /\ ~buffers'[r][Sid(r)].responseSent
             /\ buffers'[r][Sid(r)].collectedQuestion # <<>>
             /\ buffers'[r][Sid(r)].collectedQuestion[1] = Fragments(r)[first]
    ]_vars

(***************************************************************************)
(* C16 (as claimed): messages is cleared atomically with the flush that    *)
(* reads it: in every reachable state no fragment that was handed to the   *)
(* MemoryStore is still in the buffer's messages.                          *)
(***************************************************************************)
\* the positions, in the batch of r, of the fragments its buffer holds: the
\* last Len(messages) fragments the handler appended
C16_Retained(r) ==
  { i \in 1..idx[r] : i > idx[r] - Len(Buffer(r).messages) }

\* the positions of the fragments of r handed to the MemoryStore: a flush
\* of the handler at fragment i hands over what was appended up to i, a
\* flush of the reaper what was appended at all
C16_Handed(r) ==
  { i \in 1..idx[r] :
      \E n \in DOMAIN store :
         /\ store[n].by.req = r
         /\ store[n].by.who = "handler" => i <= store[n].by.at }

\* C16 (as claimed): no fragment is both handed over and retained
C16_FlushedIsNotRetained ==
  \A r \in Reqs : Arrived(r) => C16_Handed(r) \cap C16_Retained(r) = {}

(***************************************************************************)
(* C17 (as claimed): when the embedding or the store call of a flush       *)
(* fails, the failure reaches the caller of the flush, the flush is not    *)
(* tried again, and messages is already empty.                             *)
(***************************************************************************)
\* the flush the handler of r began at fragment idx[r] failed
C17_HandlerFlushFailed(r) == Arrived(r) /\ pc[r] = "failed"

\* the flush of reaper k of r failed
C17_ReaperFlushFailed(r, k) == IsTimer(r, k, "reaper", "failed")

\* C17 (as claimed): after a failed flush the caller has failed, nothing of
\* the flush was stored, and the buffer is empty
C17_FailedFlushEmptiesBuffer ==
  \A r \in Reqs :
     /\ C17_HandlerFlushFailed(r) =>
          /\ http[r] = "failure"
          /\ \A n \in DOMAIN store :
               store[n].by # [req |-> r, who |-> "handler", at |-> idx[r]]
          /\ Buffer(r).messages = <<>>
     /\ \A k \in DOMAIN timers[r] :
          C17_ReaperFlushFailed(r, k) =>
            /\ \A n \in DOMAIN store :
                 store[n].by # [req |-> r, who |-> "reaper", at |-> k]
            /\ Buffer(r).messages = <<>>

(***************************************************************************)
(* C18: two requests of one session can both find triggerDetected false    *)
(* and both open a window, so that two question-collection timers wait for *)
(* the same session.  It happens whenever both carry a trigger phrase:     *)
(* each of them reads the triggerDetected of its own new buffer.           *)
(***************************************************************************)
\* the handler of r has run over its one fragment, which holds a trigger
\* phrase
C18_Triggered(r) ==
  /\ pc[r] = "done"
  /\ Fragments(r) \in {<<toLowerCase(T_forgot)>>, <<T_dont>>}

\* r opened a window: its first timer is the question-collection timer,
\* and its buffer collected the fragment
C18_OpenedWindow(r) ==
  /\ Len(timers[r]) = 2
  /\ timers[r][1].kind = "dispatch"
  /\ timers[r][1].st = "pending" =>
       /\ Buffer(r).triggerDetected
       /\ Buffer(r).collectedQuestion = Fragments(r)

\* C18: of two requests of one session that carry a trigger phrase, both
\* open a window, and two timers wait until the first of them fires
C18_BothOpenWindow ==
  \A r1, r2 \in Reqs :
     ( /\ r1 < r2
       /\ Sid(r1) = Sid(r2)
       /\ C18_Triggered(r1) /\ C18_Triggered(r2) )
     => /\ C18_OpenedWindow(r1) /\ C18_OpenedWindow(r2)
        /\ now < timers[r1][1].due /\ now < timers[r2][1].due
             => Cardinality({ r \in {r1, r2} :
                                IsTimer(r, 1, "dispatch", "pending") }) = 2

\* the requests overlapped: the first was still awaiting its flush when the
\* second arrived, and opened its window after the second had opened its
\* own; both timers wait
C18_Witness ==
  \E r1, r2 \in Reqs :
     /\ r1 < r2
     /\ Sid(r1) = Sid(r2)
     /\ C18_Triggered(r1) /\ C18_Triggered(r2)
     /\ IsTimer(r1, 1, "dispatch", "pending")
     /\ IsTimer(r2, 1, "dispatch", "pending")
     /\ Buffer(r1).triggerDetected /\ Buffer(r2).triggerDetected
     /\ Buffer(r1).lastActivity < Buffer(r2).lastActivity
     /\ Buffer(r2).lastActivity
          < timers[r1][1].due - QUESTION_COLLECTION_TIMEOUT

(***************************************************************************)
(* C19: the flush of a fragment is awaited before its trigger detection.   *)
(* A trigger fragment that flushes (it ends in . ! or ?, or is alone in    *)
(* its batch and longer than 50 characters) is stored for its session,     *)
(* joined to what was buffered before it, when its window opens, and the   *)
(* search of its callback finds the store holding it.                      *)
(***************************************************************************)
\* the fragment that opened the window of timer k of r: the head of the
\* collected question, as the buffer holds it while the timer waits and as
\* the callback read it when it fired
C19_Opening(r, k) ==
  IF timers[r][k].st = "pending"
  THEN Buffer(r).collectedQuestion
  ELSE timers[r][k].asked

\* fragment text, of the batch of r, flushes when it is appended
C19_Flushes(r, text) ==
  \/ text[Len(text)] \in {".", "!", "?"}
  \/ Len(body[r].segments) = 1 /\ Len(text) > 50

\* the store holds, for the session of r, a memory that ends with the
\* fragment text of r and begins with the fragments buffered before it
C19_Stored(r, text) ==
  \E n \in DOMAIN store : \E i \in 1..idx[r] : \E a \in 1..i :
     /\ Fragments(r)[i] = text
     /\ store[n].by = [req |-> r, who |-> "handler", at |-> i]
     /\ store[n].sessionId = Sid(r)
     /\ store[n].document = join(SubSeq(Fragments(r), a, i), SPACE)
     /\ a > 1 => C19_Flushes(r, Fragments(r)[a - 1])

\* C19: from the opening of its window on, a flushing trigger fragment is
\* in the store, and the search of its callback returns documents
C19_QuestionIsStoredBeforeSearch ==
  \A r \in Reqs : \A k \in DOMAIN timers[r] :
     ( /\ timers[r][k].kind = "dispatch"
       /\ C19_Opening(r, k) # <<>>
       /\ C19_Flushes(r, C19_Opening(r, k)[1]) )
     => /\ C19_Stored(r, C19_Opening(r, k)[1])
        /\ timers[r][k].st \in {"generate", "done"}
             => timers[r][k].results.documents # <<>>

\* "hello" was buffered, "i don't remember?" flushed "hello i don't
\* remember?" and then opened the window, and the search has returned it
C19_Witness ==
  \E r \in Reqs : \E k \in DOMAIN timers[r] :
     /\ Fragments(r) = <<T_hello, T_dont>>
     /\ IsTimer(r, k, "dispatch", "generate")
     /\ timers[r][k].asked = <<T_dont>>
     /\ timers[r][k].results.documents = <<T_hello \o SPACE \o T_dont>>

(***************************************************************************)
(* C20: when the search or the generation fails inside the callback, the   *)
(* buffer keeps triggerDetected = true and responseSent = false for good:  *)
(* the cycle gets no response, nothing is reset, and every trigger phrase  *)
(* detected later is appended to collectedQuestion while no other callback *)
(* is scheduled.                                                           *)
(***************************************************************************)
\* the trigger fragments of r whose trigger detection has run, in order
C20_DetectedTriggers(r) ==
  SelectSeq(SubSeq(Fragments(r), 1,
                   IF pc[r] \in {"saving", "added", "failed"}
                   THEN idx[r] - 1 ELSE idx[r]),
            HasTrigger)

\* C20: in every state after a callback of r failed
C20_FailedDispatchStaysOpen ==
  \A r \in Reqs : \A k \in DOMAIN timers[r] :
     IsTimer(r, k, "dispatch", "failed") =>
       /\ Buffer(r).triggerDetected
       /\ ~Buffer(r).responseSent
       /\ cycle[r] = timers[r][k].cycle
       /\ \A n \in DOMAIN responses :
            ~(responses[n].req = r /\ responses[n].cycle = cycle[r])
       /\ \A j \in DOMAIN timers[r] :
            (j # k /\ timers[r][j].kind = "dispatch")
            => (j < k /\ timers[r][j].st = "done")
       /\ IsPrefix(timers[r][k].asked, Buffer(r).collectedQuestion)
       /\ \E m \in 0..Len(C20_DetectedTriggers(r)) :
            Buffer(r).collectedQuestion
              = SubSeq(C20_DetectedTriggers(r), m + 1,
                       Len(C20_DetectedTriggers(r)))

\* the search failed while the handler awaited a flush; the trigger
\* fragment the handler met afterwards joined the collected question, and
\* the handler returned without scheduling another callback
C20_Witness ==
  \E r \in Reqs : \E k \in DOMAIN timers[r] :
     /\ IsTimer(r, k, "dispatch", "failed")
     /\ pc[r] = "done"
     /\ Len(Buffer(r).collectedQuestion) > Len(timers[r][k].asked)
     /\ \A j \in DOMAIN timers[r] : j # k => timers[r][j].kind = "reaper"

=============================================================================
